---- MODULE Spec2Model ----
(***************************************************************************)
(* Solid Waste Assessment Tool (src/script.py): the pipeline run by main   *)
(*   computeArray -> zonalStats -> processStats -> column write-back.      *)
(*                                                                         *)
(* Numbers.  The script computes in floating point.  The model computes    *)
(* with exact rationals in lowest terms (a record kind/num/den), numpy's   *)
(* NaN is the value NaN and Python's None is the value None.  A raster     *)
(* window is a sequence of pixels; a polygon is the set of pixel indices   *)
(* that rasterstats' rasterize_geom marks for it (pixel centre inside the  *)
(* polygon), the empty set for a polygon outside the window.  Positions   *)
(* are in raster coordinates; the affine transform of a window is its      *)
(* origin, which maps window pixel c to the position origin + c.           *)
(***************************************************************************)
EXTENDS Integers, Sequences, FiniteSets, TLC

VARIABLES
    pc,                 \* position of main
    dataset,            \* the raster in the window of bbox: [pop, origin, nodata]
    sw_ppd,             \* kilograms of solid waste per capita per day
    municipal_filter,   \* rows of the municipal GeoDataFrame: [name, cells]
    service_areas,      \* rows of the service-area GeoDataFrame: [label, name, cells, total_coll]
    pop_array,          \* computeArray: the window as read, then masked
    array,              \* computeArray: tonnes per pixel per week
    nodata,             \* computeArray: the raster's NoData value
    affine,             \* computeArray: the transform of the window
    mun_names, mun_stats, provider_names, provider_stats,   \* zonalStats' four lists
    mun_dict_sorted, provider_dict_sorted,                  \* processStats' two rankings
    stat_output,        \* the column main adds to municipal_filter
    total_uncoll,       \* the column main writes onto service_areas
    reads,              \* number of dataset.read calls so far
    calls,              \* history: the zonal_stats calls made, with their arguments
    steps               \* history: the pipeline steps taken, in order

vars == << pc, dataset, sw_ppd, municipal_filter, service_areas, pop_array, array,
           nodata, affine, mun_names, mun_stats, provider_names, provider_stats,
           mun_dict_sorted, provider_dict_sorted, stat_output, total_uncoll, reads,
           calls, steps >>

---------------------------------------------------------------------------
(* Bounds of the model. *)

\* pixels in the raster window
NCells == 2
\* zones per collection in the runs of the whole pipeline
NZones == 2
\* entries per list in the runs of processStats on its own
MaxLen == 3

---------------------------------------------------------------------------
(* Numbers: rationals in lowest terms, NaN and None. *)

RECURSIVE GCD(_, _)
GCD(a, b) == IF b = 0 THEN a ELSE GCD(b, a % b)

Abs(n) == IF n < 0 THEN 0 - n ELSE n

NaN == [kind |-> "nan", num |-> 0, den |-> 1]

None == [kind |-> "none", num |-> 0, den |-> 1]

\* the rational n/d, d > 0, in lowest terms
Q(n, d) ==
    LET g == GCD(Abs(n), d)
    IN  [kind |-> "num", num |-> n \div g, den |-> d \div g]

R(n) == Q(n, 1)

IsNum(x) == x.kind = "num"

\* x * y of numpy / Python floats: NaN when either operand is NaN
Mul(x, y) == IF IsNum(x) /\ IsNum(y) THEN Q(x.num * y.num, x.den * y.den) ELSE NaN

\* x / k for a positive integer k
DivInt(x, k) == IF IsNum(x) THEN Q(x.num, x.den * k) ELSE NaN

Add(x, y) ==
    IF IsNum(x) /\ IsNum(y) THEN Q(x.num * y.den + y.num * x.den, x.den * y.den) ELSE NaN

Sub(x, y) ==
    IF IsNum(x) /\ IsNum(y) THEN Q(x.num * y.den - y.num * x.den, x.den * y.den) ELSE NaN

\* x < y of two numbers
Less(x, y) == x.num * y.den < y.num * x.den

---------------------------------------------------------------------------
(* computeArray, lines 121-143. *)

\* pop_array[(pop_array <= 0)] = np.nan: the empty pixels masked as well
MaskNonPositive(pop) ==
    [c \in DOMAIN pop |-> IF IsNum(pop[c]) /\ ~Less(R(0), pop[c]) THEN NaN ELSE pop[c]]

\* line 133: pop_array[(pop_array < 0)] = np.nan
MaskNegative(pop) ==
    [c \in DOMAIN pop |-> IF IsNum(pop[c]) /\ Less(pop[c], R(0)) THEN NaN ELSE pop[c]]

\* sw_ppd_array + 7 in place of sw_ppd_array * 7
MassArrayPlus7(pop, rate) ==
    LET sw_ppd_array == [c \in DOMAIN pop |-> Mul(pop[c], rate)]
        sw_ppw_array == [c \in DOMAIN pop |-> Add(sw_ppd_array[c], R(7))]
    IN  [c \in DOMAIN pop |-> DivInt(sw_ppw_array[c], 1000)]

\* lines 137-141: population -> kg per day -> kg per week -> tonnes per week
MassArray(pop, rate) ==
    LET sw_ppd_array == [c \in DOMAIN pop |-> Mul(pop[c], rate)]
        sw_ppw_array == [c \in DOMAIN pop |-> Mul(sw_ppd_array[c], R(7))]
    IN  [c \in DOMAIN pop |-> DivInt(sw_ppw_array[c], 1000)]

\* line 131: dataset.read(1, window=window), the pixels of the window as floats
ReadWindow(ds) == [c \in DOMAIN ds.pop |-> R(ds.pop[c])]

\* line 132: dataset.window_transform(window)
WindowTransform(ds) == [origin |-> ds.origin]

\* dataset.transform, the transform of the whole raster, whose origin is 0
RasterTransform(ds) == [origin |-> 0]

\* lines 125-132: open the raster, take its NoData value, read the window and
\* take the window's transform
computeArray_read ==
    /\ pc = "computeArray_read"
    /\ nodata' = dataset.nodata
    /\ affine' = WindowTransform(dataset)
    /\ pop_array' = ReadWindow(dataset)
    /\ reads' = reads + 1
    /\ steps' = Append(steps, "window")
    /\ pc' = "computeArray_mass"
    /\ UNCHANGED << dataset, sw_ppd, municipal_filter, service_areas, array, mun_names,
                    mun_stats, provider_names, provider_stats, mun_dict_sorted,
                    provider_dict_sorted, stat_output, total_uncoll, calls >>

\* lines 133-143: mask the negative pixels in place, then the arithmetic
computeArray_mass ==
    /\ pc = "computeArray_mass"
    /\ pop_array' = MaskNegative(pop_array)
    /\ array' = MassArray(MaskNegative(pop_array), sw_ppd)
    /\ steps' = Append(steps, "mass")
    /\ pc' = "zonalStats_mun"
    /\ UNCHANGED << dataset, sw_ppd, municipal_filter, service_areas, nodata, affine,
                    mun_names, mun_stats, provider_names, provider_stats, mun_dict_sorted,
                    provider_dict_sorted, stat_output, total_uncoll, reads, calls >>

---------------------------------------------------------------------------
(* zonalStats, lines 205-227. *)

Min(a, b) == IF a < b THEN a ELSE b

Front(s) == SubSeq(s, 1, Len(s) - 1)

Last(s) == s[Len(s)]

\* sum of arr over the pixels 1..n that are in cells
RECURSIVE SumCells(_, _, _)
SumCells(arr, cells, n) ==
    IF n = 0 THEN R(0)
    ELSE IF n \in cells THEN Add(SumCells(arr, cells, n - 1), arr[n])
    ELSE SumCells(arr, cells, n - 1)

\* rasterstats.zonal_stats(vector, array, affine, nodata, stats='sum', geojson_out=True),
\* called on line 205: one output feature per input feature, in input order, the
\* feature's properties plus 'sum'.  A pixel equal to nodata or NaN is masked; the
\* sum is None when the polygon holds no unmasked pixel.  aff places the pixels:
\* pixel c of arr lies at position aff.origin + c.
zonal_stats(vector, arr, aff, nd) ==
    [k \in DOMAIN vector |->
        LET valid == {c \in DOMAIN arr :
                          /\ aff.origin + c \in vector[k].cells
                          /\ IsNum(arr[c])
                          /\ arr[c] # R(nd)}
        IN  [name |-> vector[k].name,
             sum  |-> IF valid = {} THEN None ELSE SumCells(arr, valid, Len(arr))]]

\* the feature names as getNamesStats appends them, lines 207-210
NamesInOrder(temp) == [k \in DOMAIN temp |-> temp[k].name]

\* getNamesStats, lines 205-211: the two lists after the loop has appended to them
getNamesStats(vector, arr, aff, nd, feature_list, stat_list) ==
    LET temp == zonal_stats(vector, arr, aff, nd)
    IN  [names |-> feature_list \o NamesInOrder(temp),
         stats |-> stat_list \o [k \in DOMAIN temp |-> temp[k].sum]]

\* lines 217-219: the municipal zones
zonalStats_mun ==
    /\ pc = "zonalStats_mun"
    /\ LET r == getNamesStats(municipal_filter, array, affine, nodata, << >>, << >>)
       IN  /\ mun_names' = r.names
           /\ mun_stats' = r.stats
    /\ calls' = Append(calls, [zones |-> "municipal_filter", array |-> array,
                               affine |-> affine, nodata |-> nodata])
    /\ steps' = Append(steps, "zonal")
    /\ pc' = "zonalStats_provider"
    /\ UNCHANGED << dataset, sw_ppd, municipal_filter, service_areas, pop_array, array,
                    nodata, affine, provider_names, provider_stats, mun_dict_sorted,
                    provider_dict_sorted, stat_output, total_uncoll, reads >>

\* the second call handed the lists of the first ("Must be unique in script")
zonalStats_provider_sharedLists ==
    /\ pc = "zonalStats_provider"
    /\ LET r == getNamesStats(service_areas, array, affine, nodata, mun_names, mun_stats)
       IN  /\ provider_names' = r.names
           /\ provider_stats' = r.stats
    /\ calls' = Append(calls, [zones |-> "service_areas", array |-> array,
                               affine |-> affine, nodata |-> nodata])
    /\ steps' = Append(steps, "zonal")
    /\ pc' = "processStats"
    /\ UNCHANGED << dataset, sw_ppd, municipal_filter, service_areas, pop_array, array,
                    nodata, affine, mun_names, mun_stats, mun_dict_sorted,
                    provider_dict_sorted, stat_output, total_uncoll, reads >>

\* the second call handed the transform of the whole raster, not of the window
zonalStats_provider_rasterTransform ==
    /\ pc = "zonalStats_provider"
    /\ LET r == getNamesStats(service_areas, array, RasterTransform(dataset), nodata,
                              << >>, << >>)
       IN  /\ provider_names' = r.names
           /\ provider_stats' = r.stats
    /\ calls' = Append(calls, [zones |-> "service_areas", array |-> array,
                               affine |-> RasterTransform(dataset), nodata |-> nodata])
    /\ steps' = Append(steps, "zonal")
    /\ pc' = "processStats"
    /\ UNCHANGED << dataset, sw_ppd, municipal_filter, service_areas, pop_array, array,
                    nodata, affine, mun_names, mun_stats, mun_dict_sorted,
                    provider_dict_sorted, stat_output, total_uncoll, reads >>

\* the second call reading the window again instead of sharing the first read
zonalStats_provider_reread ==
    /\ pc = "zonalStats_provider"
    /\ reads' = reads + 1
    /\ steps' = steps \o << "window", "zonal" >>
    /\ LET r == getNamesStats(service_areas, array, affine, nodata, << >>, << >>)
       IN  /\ provider_names' = r.names
           /\ provider_stats' = r.stats
    /\ calls' = Append(calls, [zones |-> "service_areas", array |-> array,
                               affine |-> affine, nodata |-> nodata])
    /\ pc' = "processStats"
    /\ UNCHANGED << dataset, sw_ppd, municipal_filter, service_areas, pop_array, array,
                    nodata, affine, mun_names, mun_stats, mun_dict_sorted,
                    provider_dict_sorted, stat_output, total_uncoll >>

\* lines 223-227: the service areas
zonalStats_provider ==
    /\ pc = "zonalStats_provider"
    /\ LET r == getNamesStats(service_areas, array, affine, nodata, << >>, << >>)
       IN  /\ provider_names' = r.names
           /\ provider_stats' = r.stats
    /\ calls' = Append(calls, [zones |-> "service_areas", array |-> array,
                               affine |-> affine, nodata |-> nodata])
    /\ steps' = Append(steps, "zonal")
    /\ pc' = "processStats"
    /\ UNCHANGED << dataset, sw_ppd, municipal_filter, service_areas, pop_array, array,
                    nodata, affine, mun_names, mun_stats, mun_dict_sorted,
                    provider_dict_sorted, stat_output, total_uncoll, reads >>

---------------------------------------------------------------------------
(* processStats, lines 257-281. *)

\* zip(a, b): pairs up to the shorter list
Zip(a, b) == [k \in 1..Min(Len(a), Len(b)) |-> << a[k], b[k] >>]

\* line 257: the total_coll column as a list
CollColumn(rows) == [k \in DOMAIN rows |-> rows[k].total_coll]

\* a deficit clamped at zero: max(i - j, 0)
UncollectedClamped(i, j) == IF Less(Sub(i, j), R(0)) THEN R(0) ELSE Sub(i, j)

\* line 262: i - j
Uncollected(i, j) == Sub(i, j)

\* lines 258-262: the uncollected mass per service area, by position
ProviderUncoll(stats, coll) ==
    LET z == Zip(stats, coll)
    IN  [k \in DOMAIN z |-> Uncollected(z[k][1], z[k][2])]

\* None - number raises TypeError on line 262
SubtractRaises(stats, coll) == \E k \in DOMAIN Zip(stats, coll) : stats[k] = None

\* dict(pairs).items(), lines 267-268: one item per key, in the order the keys
\* were first inserted, holding the value inserted last
RECURSIVE DictItems(_)
DictItems(pairs) ==
    IF pairs = << >> THEN << >>
    ELSE LET d == DictItems(Front(pairs))
             p == Last(pairs)
         IN  IF \E k \in DOMAIN d : d[k][1] = p[1]
             THEN [k \in DOMAIN d |-> IF d[k][1] = p[1] THEN p ELSE d[k]]
             ELSE Append(d, p)

\* x goes behind every item whose value is not smaller than x's
InsertDesc(s, x) ==
    LET ahead == Cardinality({k \in DOMAIN s : ~Less(s[k][2], x[2])})
    IN  SubSeq(s, 1, ahead) \o << x >> \o SubSeq(s, ahead + 1, Len(s))

\* x goes behind every item whose value is not greater than x's
InsertAsc(s, x) ==
    LET ahead == Cardinality({k \in DOMAIN s : ~Less(x[2], s[k][2])})
    IN  SubSeq(s, 1, ahead) \o << x >> \o SubSeq(s, ahead + 1, Len(s))

RECURSIVE SortedAsc(_)
SortedAsc(items) ==
    IF items = << >> THEN << >> ELSE InsertAsc(SortedAsc(Front(items)), Last(items))

\* sorted(items, key=...)[::-1]: ascending, then reversed, which reverses the ties
SortedAscReversed(items) ==
    LET a == SortedAsc(items) IN [k \in DOMAIN a |-> a[Len(a) + 1 - k]]

\* sorted(items, key=lambda x: x[1], reverse=True), lines 271-272: a stable sort,
\* and reverse=True keeps items with equal keys in their original order
RECURSIVE SortedDesc(_)
SortedDesc(items) ==
    IF items = << >> THEN << >> ELSE InsertDesc(SortedDesc(Front(items)), Last(items))

\* comparing None with a number raises TypeError inside sorted
SortRaises(items) == Len(items) >= 2 /\ \E k \in DOMAIN items : items[k][2] = None

\* int(i[1]) on lines 276 and 279 raises for None (TypeError) and NaN (ValueError)
PrintRaises(items) == \E k \in DOMAIN items : ~IsNum(items[k][2])

processStatsRaises ==
    \/ SubtractRaises(provider_stats, CollColumn(service_areas))
    \/ LET mun_dict == DictItems(Zip(mun_names, mun_stats))
           provider_dict == DictItems(Zip(provider_names,
                                ProviderUncoll(provider_stats, CollColumn(service_areas))))
       IN  \/ SortRaises(mun_dict)
           \/ SortRaises(provider_dict)
           \/ PrintRaises(mun_dict)
           \/ PrintRaises(provider_dict)

\* processStats with mun_stats.sort(reverse=True) ahead of the zip
processStats_sortInPlace ==
    /\ pc = "processStats"
    /\ ~processStatsRaises
    /\ mun_stats' = [k \in DOMAIN mun_stats |->
                        SortedDesc([j \in DOMAIN mun_stats |-> << j, mun_stats[j] >>])[k][2]]
    /\ LET provider_coll == CollColumn(service_areas)
           provider_uncoll == ProviderUncoll(provider_stats, provider_coll)
           mun_dict == DictItems(Zip(mun_names, mun_stats'))
           provider_dict == DictItems(Zip(provider_names, provider_uncoll))
       IN  /\ mun_dict_sorted' = SortedDesc(mun_dict)
           /\ provider_dict_sorted' = SortedDesc(provider_dict)
    /\ steps' = Append(steps, "rank")
    /\ pc' = "main_attach"
    /\ UNCHANGED << dataset, sw_ppd, municipal_filter, service_areas, pop_array, array,
                    nodata, affine, mun_names, provider_names, provider_stats,
                    stat_output, total_uncoll, reads, calls >>

\* processStats returns its two rankings
processStats ==
    /\ pc = "processStats"
    /\ ~processStatsRaises
    /\ LET provider_coll == CollColumn(service_areas)
           provider_uncoll == ProviderUncoll(provider_stats, provider_coll)
           mun_dict == DictItems(Zip(mun_names, mun_stats))
           provider_dict == DictItems(Zip(provider_names, provider_uncoll))
       IN  /\ mun_dict_sorted' = SortedDesc(mun_dict)
           /\ provider_dict_sorted' = SortedDesc(provider_dict)
    /\ steps' = Append(steps, "rank")
    /\ pc' = "main_attach"
    /\ UNCHANGED << dataset, sw_ppd, municipal_filter, service_areas, pop_array, array,
                    nodata, affine, mun_names, mun_stats, provider_names, provider_stats,
                    stat_output, total_uncoll, reads, calls >>

\* processStats raises; main has no handler, the run ends with the exception
processStats_raise ==
    /\ pc = "processStats"
    /\ processStatsRaises
    /\ pc' = "raised"
    /\ UNCHANGED << dataset, sw_ppd, municipal_filter, service_areas, pop_array, array,
                    nodata, affine, mun_names, mun_stats, provider_names, provider_stats,
                    mun_dict_sorted, provider_dict_sorted, stat_output, total_uncoll,
                    reads, calls, steps >>

---------------------------------------------------------------------------
(* main, lines 341-346: the results written back onto the two tables. *)

\* provider_stats[i - 1]: one row too early, Python's index -1 being the last entry
RowUncollShifted(stats, row) ==
    Uncollected(stats[((row.label - 1) % Len(stats)) + 1], row.total_coll)

\* line 346: provider_stats[i] - row[provider_coll_field], i the row's label
RowUncoll(stats, row) == Uncollected(stats[row.label + 1], row.total_coll)

\* line 342: pd.Series(mun_stats, index=municipal_filter.index).  A list that holds
\* a number becomes a float64 column, its None entries NaN; a list of None only
\* stays an object column of None.
StatSeries(stats) ==
    IF \A k \in DOMAIN stats : stats[k] = None
    THEN stats
    ELSE [k \in DOMAIN stats |-> IF stats[k] = None THEN NaN ELSE stats[k]]

\* lines 341-346: stat_output assigned by position, total_uncoll row by row
main_attach ==
    /\ pc = "main_attach"
    /\ stat_output' = [k \in DOMAIN municipal_filter |-> StatSeries(mun_stats)[k]]
    /\ total_uncoll' = [k \in DOMAIN service_areas |->
                            RowUncoll(provider_stats, service_areas[k])]
    /\ pc' = "done"
    /\ UNCHANGED << dataset, sw_ppd, municipal_filter, service_areas, pop_array, array,
                    nodata, affine, mun_names, mun_stats, provider_names, provider_stats,
                    mun_dict_sorted, provider_dict_sorted, reads, calls, steps >>

---------------------------------------------------------------------------
(* The inputs of a run. *)

\* pixel values of the population raster; -9 is its NoData value
PopValues == {-9, -1, 0, 3}

\* the slider of line 284: its lowest rate, its starting rate, its highest rate
Rates == {Q(4, 10), Q(8, 10), Q(12, 10)}

\* zone names by row position; neither list is in alphabetical order
MunNameAt == << "Ikeja", "Epe", "Badagry", "Agege", "Mushin" >>

PspNameAt == << "psp_c", "psp_a", "psp_b", "psp_e", "psp_d" >>

Pixels == 1..NCells

\* where the window starts in the raster
WindowOrigins == {5}

\* the positions of the window's pixels, of which a polygon holds a subset
Cells == {o + c : o \in WindowOrigins, c \in Pixels}

SeqsUpTo(S, n) == UNION {[1..m -> S] : m \in 0..n}

\* a municipal table with the given polygons
MunTable(geoms) == [k \in DOMAIN geoms |-> [name |-> MunNameAt[k], cells |-> geoms[k]]]

\* a service-area table as gpd.read_file builds it (line 91): row labels 0..n-1
AreaTable(names, geoms, colls) ==
    [k \in DOMAIN geoms |-> [label |-> k - 1, name |-> names[k], cells |-> geoms[k],
                             total_coll |-> colls[k]]]

Rasters(values) ==
    {[pop |-> p, origin |-> o, nodata |-> -9] : p \in [Pixels -> values], o \in WindowOrigins}

\* one collection ranges over every choice of polygons while the other covers the window
WholeTables ==
    {<< MunTable(g), AreaTable(PspNameAt, [k \in 1..NZones |-> Cells],
                               [k \in 1..NZones |-> R(1)]) >> :
        g \in SeqsUpTo(SUBSET Cells, NZones)}
    \cup
    {<< MunTable([k \in 1..NZones |-> Cells]),
        AreaTable(PspNameAt, g, [k \in DOMAIN g |-> R(1)]) >> :
        g \in SeqsUpTo(SUBSET Cells, NZones)}

InitLocals ==
    /\ pop_array = << >>
    /\ array = << >>
    /\ nodata = 0
    /\ affine = [origin |-> 0]
    /\ mun_names = << >>
    /\ mun_stats = << >>
    /\ provider_names = << >>
    /\ provider_stats = << >>
    /\ mun_dict_sorted = << >>
    /\ provider_dict_sorted = << >>
    /\ stat_output = << >>
    /\ total_uncoll = << >>
    /\ reads = 0
    /\ calls = << >>
    /\ steps = << >>

\* main after getVector has returned (line 327)
Init ==
    /\ pc = "computeArray_read"
    /\ dataset \in Rasters({-9, 0, 3})
    /\ sw_ppd = Q(8, 10)
    /\ \E t \in WholeTables : municipal_filter = t[1] /\ service_areas = t[2]
    /\ InitLocals

Next ==
    \/ computeArray_read
    \/ computeArray_mass
    \/ zonalStats_mun
    \/ zonalStats_provider
    \/ processStats
    \/ processStats_raise
    \/ main_attach

Spec == Init /\ [][Next]_vars

---------------------------------------------------------------------------
(* computeArray on its own: every raster over PopValues, no zones. *)

InitArray ==
    /\ pc = "computeArray_read"
    /\ dataset \in Rasters(PopValues)
    /\ sw_ppd \in Rates
    /\ municipal_filter = << >>
    /\ service_areas = << >>
    /\ InitLocals

NextArray == computeArray_read \/ computeArray_mass

SpecArray == InitArray /\ [][NextArray]_vars

---------------------------------------------------------------------------
(* processStats and the write-back on their own: main at line 333, after    *)
(* computeArray and zonalStats have run on a window of two pixels, at        *)
(* positions 6 and 7, of 1000 and 3000 persons at 1 kg per person and day   *)
(* (7 and 21 tonnes per week).                                              *)

TailRaster == [pop |-> << 1000, 3000 >>, origin |-> 5, nodata |-> -9]

TailRate == Q(10, 10)

TailNames == {"Ikeja", "Epe", "Badagry"}

TailPsps == {"psp_c", "psp_a", "psp_b"}

\* municipal zones: outside the window, on the first pixel, on the second pixel
TailMunTables ==
    {[k \in DOMAIN n |-> [name |-> n[k], cells |-> g[k]]] :
        << n, g >> \in UNION {[1..m -> TailNames] \X [1..m -> {{}, {6}, {7}}] : m \in 0..MaxLen}}

\* a service area's polygon and reported collection: outside the window, on the
\* first pixel (7 tonnes generated) with 2 or 16 tonnes collected, on the second
\* pixel (21 tonnes generated) with 16 tonnes collected
TailAreaKinds == {<< {}, R(2) >>, << {6}, R(2) >>, << {6}, R(16) >>, << {7}, R(16) >>}

TailAreaTables ==
    {AreaTable(x[1], [k \in DOMAIN x[2] |-> x[2][k][1]], [k \in DOMAIN x[2] |-> x[2][k][2]]) :
        x \in UNION {[1..m -> TailPsps] \X [1..m -> TailAreaKinds] : m \in 0..MaxLen}}

\* every municipal table with one service area, every service-area table with
\* three municipalities
TailTables ==
    {<< t, AreaTable(<< "psp_c" >>, << {6} >>, << R(16) >>) >> : t \in TailMunTables}
    \cup
    {<< [k \in 1..3 |-> [name |-> MunNameAt[k], cells |-> << {7}, {7}, {6} >>[k]]], t >> :
        t \in TailAreaTables}

InitTail ==
    /\ pc = "processStats"
    /\ dataset = TailRaster
    /\ sw_ppd = TailRate
    /\ \E t \in TailTables : municipal_filter = t[1] /\ service_areas = t[2]
    /\ nodata = dataset.nodata
    /\ affine = WindowTransform(dataset)
    /\ pop_array = MaskNegative(ReadWindow(dataset))
    /\ array = MassArray(pop_array, sw_ppd)
    /\ LET m == getNamesStats(municipal_filter, array, affine, nodata, << >>, << >>)
           p == getNamesStats(service_areas, array, affine, nodata, << >>, << >>)
       IN  /\ mun_names = m.names
           /\ mun_stats = m.stats
           /\ provider_names = p.names
           /\ provider_stats = p.stats
    /\ mun_dict_sorted = << >>
    /\ provider_dict_sorted = << >>
    /\ stat_output = << >>
    /\ total_uncoll = << >>
    /\ reads = 1
    /\ calls = << [zones |-> "municipal_filter", array |-> array, affine |-> affine, nodata |-> nodata],
                  [zones |-> "service_areas", array |-> array, affine |-> affine, nodata |-> nodata] >>
    /\ steps = << "window", "mass", "zonal", "zonal" >>

NextTail == processStats \/ processStats_raise \/ main_attach

SpecTail == InitTail /\ [][NextTail]_vars

---------------------------------------------------------------------------
(* Properties. *)

Range(s) == {s[k] : k \in DOMAIN s}

Distinct(s) == \A i, j \in DOMAIN s : i # j => s[i] # s[j]

\* processStats has returned
Returned == pc \in {"main_attach", "done"}

\* the position of name n in the list names
PosOf(names, n) == CHOOSE k \in DOMAIN names : names[k] = n

\* descending by value, equal values in the order of the input list names
RankedStably(ranking, names) ==
    \A i, j \in DOMAIN ranking :
        i < j => /\ ~Less(ranking[i][2], ranking[j][2])
                 /\ ranking[i][2] = ranking[j][2]
                        => PosOf(names, ranking[i][1]) < PosOf(names, ranking[j][1])

\* C1: with pairwise distinct names, both rankings processStats returns are in
\* descending order of value, and entries of equal value keep the relative order
\* they have in the input lists.
C1_RankingsDescendingStable ==
    Returned =>
        /\ Distinct(mun_names) => RankedStably(mun_dict_sorted, mun_names)
        /\ Distinct(provider_names) => RankedStably(provider_dict_sorted, provider_names)

\* the spec's example, (A,30),(B,30),(C,10), with 21, 21 and 7 tonnes
C1_Witness ==
    /\ pc = "done"
    /\ mun_names = << "Ikeja", "Epe", "Badagry" >>
    /\ mun_stats = << R(21), R(21), R(7) >>
    /\ mun_dict_sorted = << << "Ikeja", R(21) >>, << "Epe", R(21) >>, << "Badagry", R(7) >> >>
    /\ \E i, j \in DOMAIN provider_dict_sorted :
          i < j /\ provider_dict_sorted[i][2] = provider_dict_sorted[j][2]

\* the deficit of the service area in row k: generated minus reported, signed
DeficitOfRow(k) ==
    << provider_names[k], Sub(provider_stats[k], service_areas[k].total_coll) >>

\* C2 as stated: the deficit ranking holds, for every service area k, the entry
\* (provider_names[k], provider_stats[k] - reportedCollection[k]).
C2_EveryRowRanked ==
    Returned => \A k \in DOMAIN service_areas : DeficitOfRow(k) \in Range(provider_dict_sorted)

\* C2 amended: the deficit ranking holds that entry, signed and unclamped, for every
\* service area k whose provider name is not carried by a later row.
C2_LastRowOfNameRanked ==
    Returned =>
        \A k \in DOMAIN service_areas :
            (\A j \in DOMAIN service_areas : j > k => provider_names[j] # provider_names[k])
                => DeficitOfRow(k) \in Range(provider_dict_sorted)

\* 7 tonnes generated, 16 reported: -9 in the ranking
C2_Witness ==
    /\ pc = "done"
    /\ \E k \in DOMAIN service_areas :
          /\ provider_stats[k] = R(7)
          /\ service_areas[k].total_coll = R(16)
          /\ << provider_names[k], R(-9) >> \in Range(provider_dict_sorted)

\* C9: with unique provider names (row labels are 0..n-1), the total_uncoll main
\* writes onto a row is the deficit the ranking holds under that row's provider name.
C9_ColumnMatchesRanking ==
    (pc = "done" /\ Distinct(provider_names)) =>
        \A k \in DOMAIN service_areas :
            << service_areas[k].name, total_uncoll[k] >> \in Range(provider_dict_sorted)

C9_Witness ==
    /\ pc = "done"
    /\ Distinct(provider_names)
    /\ Len(service_areas) >= 2
    /\ \A k \in DOMAIN service_areas : service_areas[k].label = k - 1
    /\ total_uncoll[1] # total_uncoll[2]

\* ranking is a permutation of the pairs (names[k], values[k])
IsPermutation(ranking, names, values) ==
    /\ Len(ranking) = Len(names)
    /\ \A k \in DOMAIN names : << names[k], values[k] >> \in Range(ranking)

\* C10: a call of processStats that returns leaves the four lists it was given
\* unchanged, and for a collection with pairwise distinct names its ranking is a
\* permutation of the input pairs.
C10_PermutationInputsKept ==
    [][(pc = "processStats" /\ pc' = "main_attach") =>
        /\ UNCHANGED << mun_names, mun_stats, provider_names, provider_stats >>
        /\ Distinct(mun_names) => IsPermutation(mun_dict_sorted', mun_names, mun_stats)
        /\ Distinct(provider_names) =>
              IsPermutation(provider_dict_sorted', provider_names,
                            [k \in DOMAIN provider_stats |->
                                Sub(provider_stats[k], service_areas[k].total_coll)])]_vars

C10_Witness ==
    /\ pc = "done"
    /\ Len(mun_names) = 3
    /\ Distinct(mun_names)
    /\ Len(provider_names) >= 2
    /\ Distinct(provider_names)
    /\ provider_dict_sorted[1][1] # provider_names[1]

\* zonalStats has returned
Aggregated == pc \in {"processStats", "raised", "main_attach", "done"}

\* C3 as stated: with an undefined aggregate among the results processStats still
\* returns, and the undefined entry is in its ranking, in last place, not as zero.
C3_UndefinedRankedLast ==
    (Aggregated /\ None \in Range(mun_stats) \cup Range(provider_stats)) =>
        /\ pc # "raised"
        /\ Returned =>
              \A k \in DOMAIN mun_stats :
                  mun_stats[k] = None =>
                      \E i \in DOMAIN mun_dict_sorted :
                          /\ mun_dict_sorted[i] = << mun_names[k], None >>
                          /\ \A j \in DOMAIN mun_dict_sorted :
                                j > i => mun_dict_sorted[j][2] = None

\* C4: computeArray returns, for every pixel, population * rate * 7 / 1000 where
\* the population is not negative and the missing marker where it is negative; the
\* negative pixels are already the missing marker in the grid that is multiplied.
C4_NegativeMaskedBeforeMass ==
    pc = "zonalStats_mun" =>
        /\ array = MassArray(pop_array, sw_ppd)
        /\ \A c \in DOMAIN dataset.pop :
              IF dataset.pop[c] >= 0
              THEN /\ pop_array[c] = R(dataset.pop[c])
                   /\ array[c] = Q(dataset.pop[c] * sw_ppd.num * 7, sw_ppd.den * 1000)
              ELSE /\ pop_array[c] = NaN
                   /\ array[c] = NaN

C4_Witness ==
    /\ pc = "zonalStats_mun"
    /\ sw_ppd = Q(4, 10)
    /\ \E c \in DOMAIN dataset.pop : dataset.pop[c] = -1 /\ array[c] = NaN
    /\ \E c \in DOMAIN dataset.pop : dataset.pop[c] = 3 /\ array[c] = Q(84, 10000)

\* the lists zonalStats returns for a zone table when main runs with the given rate
StatsAtRate(rate, vector) ==
    getNamesStats(vector, MassArray(MaskNegative(ReadWindow(dataset)), rate),
                  WindowTransform(dataset), dataset.nodata, << >>, << >>)

\* the names of a ranking, in rank order
RankedNames(ranking) == [k \in DOMAIN ranking |-> ranking[k][1]]

\* every statistic of doubled is twice the one of stats, undefined where it is undefined
Doubled(stats, doubled) ==
    /\ Len(doubled) = Len(stats)
    /\ \A k \in DOMAIN stats :
          IF stats[k] = None THEN doubled[k] = None ELSE doubled[k] = Mul(R(2), stats[k])

\* C6: with the same raster and zones, the run at rate 2r gives every zone twice
\* the aggregate of the run at rate r (an undefined aggregate stays undefined), and
\* where processStats returns its generation ranking lists the names in the same order.
C6_RateDoubling ==
    Aggregated =>
        LET m2 == StatsAtRate(Mul(R(2), sw_ppd), municipal_filter)
            p2 == StatsAtRate(Mul(R(2), sw_ppd), service_areas)
        IN  /\ Doubled(mun_stats, m2.stats)
            /\ Doubled(provider_stats, p2.stats)
            /\ Returned =>
                  RankedNames(SortedDesc(DictItems(Zip(m2.names, m2.stats))))
                      = RankedNames(mun_dict_sorted)

C6_Witness ==
    /\ pc = "done"
    /\ Len(mun_dict_sorted) >= 2
    /\ Less(mun_dict_sorted[2][2], mun_dict_sorted[1][2])
    /\ mun_dict_sorted[1][1] # mun_names[1]
    /\ \E k \in DOMAIN provider_stats : Less(R(0), provider_stats[k])

\* the statistic of one zone on its own
StatOfZone(zone) == zonal_stats(<< zone >>, array, affine, nodata)[1].sum

\* names and stats have one entry per row of table, in row order, each the row's own
ListsFollowTable(names, stats, table) ==
    /\ Len(names) = Len(table)
    /\ Len(stats) = Len(table)
    /\ \A k \in DOMAIN table :
          names[k] = table[k].name /\ stats[k] = StatOfZone(table[k])

\* C7: each pair of lists zonalStats returns has one entry per zone of its own
\* collection, in the collection's order, the k-th name and statistic being those
\* of the k-th zone.
C7_ListsInZoneOrder ==
    Aggregated =>
        /\ ListsFollowTable(mun_names, mun_stats, municipal_filter)
        /\ ListsFollowTable(provider_names, provider_stats, service_areas)

C7_Witness ==
    /\ pc = "processStats"
    /\ Len(mun_names) = 2
    /\ mun_stats[1] # mun_stats[2]
    /\ IsNum(mun_stats[2])
    /\ Len(provider_names) = 2

IsPrefix(s, t) == Len(s) <= Len(t) /\ s = SubSeq(t, 1, Len(s))

\* C8: the steps of a run are window extraction, mass transform, aggregation of the
\* municipal zones, aggregation of the service areas, ranking, in that order; the
\* raster is read once, and both aggregations are handed the same grid, transform
\* and NoData value: the mass grid computeArray made of that read, the transform
\* of the window that was read and the raster's NoData value, none of them changed.
C8_OneReadTwoAggregations ==
    /\ IsPrefix(steps, << "window", "mass", "zonal", "zonal", "rank" >>)
    /\ reads <= 1
    /\ Returned => steps = << "window", "mass", "zonal", "zonal", "rank" >>
    /\ Aggregated =>
          /\ reads = 1
          /\ array = MassArray(MaskNegative(ReadWindow(dataset)), sw_ppd)
          /\ affine = [origin |-> dataset.origin]
          /\ nodata = dataset.nodata
          /\ Len(calls) = 2
          /\ calls[1].zones = "municipal_filter"
          /\ calls[2].zones = "service_areas"
          /\ \A k \in DOMAIN calls :
                /\ calls[k].array = array
                /\ calls[k].affine = affine
                /\ calls[k].nodata = nodata

C8_Witness ==
    /\ pc = "done"
    /\ steps = << "window", "mass", "zonal", "zonal", "rank" >>
    /\ Len(calls) = 2
    /\ Len(array) >= 2
    /\ calls[1].affine = [origin |-> 5]
    /\ calls[2].affine = [origin |-> 5]
    /\ calls[2].nodata = -9

====
